---- MODULE Spec2Model ----
(***************************************************************************)
(* Model of the portfolio rebalancing engine of the investments tool       *)
(* (src/src/portfolio/rebalancing.rs).                                     *)
(*                                                                         *)
(* Money is an exact Decimal in the program.  Here an amount is a fraction *)
(* [num, den] of hundredths of the currency unit, kept in lowest terms, so *)
(* that sums, differences, products and quotients are exact and equal      *)
(* amounts are equal values; a weight is the integer number of percent     *)
(* that deserialize_weight parsed, so that amount x weight is              *)
(* (amount * percent) / 100.  A Decimal of the program carries 28          *)
(* significant digits: a quotient whose decimal expansion does not end     *)
(* (2/3) is rounded there by the program and not here.                     *)
(*                                                                         *)
(* Sibling lists are Vec<AssetAllocation>; the index i of the program is   *)
(* the index i + 1 here.                                                   *)
(***************************************************************************)
EXTENDS Integers, Sequences, FiniteSets, TLC

VARIABLES
    assets,            \* portfolio.assets: the tree of AssetAllocation
    total_value,       \* portfolio.total_value
    min_trade_volume,  \* portfolio.min_trade_volume
    pc,                \* position of the run inside rebalance_portfolio
    calls,             \* pending calculate_target_value invocations (the recursion stack)
    log,               \* one record per finished calculate_target_value call (its info! line)
    restrictions,      \* the pair returned by the top-level calculate_restrictions
    result,            \* what rebalance_portfolio handed back to its caller
    run,               \* 1: first run, 2: re-run on the converged portfolio
    sell,              \* state of one sell_overbought_assets invocation
    today,             \* CurrencyRateCache.today
    db,                \* the rows of the currency_rates table
    reply,             \* the last CurrencyRateCache call and what it returned
    taxes,             \* IbStatementParser.taxes: TaxId -> Cash
    parsed             \* the last record WithholdingTaxParser::parse saw and its result

portfolio_vars == <<assets, total_value, min_trade_volume, pc, calls, log, restrictions,
                    result, run, sell>>
cache_vars == <<today, db, reply>>
parser_vars == <<taxes, parsed>>

vars == <<portfolio_vars, cache_vars, parser_vars>>

\* No CurrencyRateCache is in use / no statement is being parsed
NoCall == [op |-> "none"]
NoRecord == [result |-> "none"]
CacheIdle == today = 0 /\ db = {} /\ reply = NoCall
ParserIdle == taxes = {} /\ parsed = NoRecord

----------------------------------------------------------------------------
(* Bounds of the explored inputs *)

MaxValue == 2
MaxTotal == 3
MaxTrade == 2
MaxIterations == 6

Cent == 100

----------------------------------------------------------------------------
(* Decimal *)

Abs(x) == IF x < 0 THEN -x ELSE x

RECURSIVE Gcd(_, _)
Gcd(a, b) == IF b = 0 THEN a ELSE Gcd(b, a % b)

\* The Decimal num / den (den > 0), in lowest terms
Fraction(num, den) ==
    IF den = 1 THEN [num |-> num, den |-> 1]
    ELSE LET g == Gcd(Abs(num), den)
         IN [num |-> num \div g, den |-> den \div g]

\* A whole number of hundredths, and dec!(0)
Dec(n) == [num |-> n, den |-> 1]
Zero == Dec(0)

Add(a, b) ==
    IF a.den = b.den THEN Fraction(a.num + b.num, a.den)
    ELSE Fraction(a.num * b.den + b.num * a.den, a.den * b.den)
Negate(a) == [num |-> -a.num, den |-> a.den]
Sub(a, b) == Add(a, Negate(b))

\* a < b and a <= b
Less(a, b) == a.num * b.den < b.num * a.den
AtMost(a, b) == a.num * b.den <= b.num * a.den

\* Decimal::abs, std::cmp::min, Decimal::is_zero
Magnitude(a) == [num |-> Abs(a.num), den |-> a.den]
Min(a, b) == IF Less(b, a) THEN b ELSE a
IsZero(a) == a.num = 0

\* Option<Decimal>
None == [some |-> FALSE, value |-> Zero]
Some(v) == [some |-> TRUE, value |-> v]

\* Decimal x weight, the weight being pct / 100 (deserialize_weight)
Mul(value, pct) == Fraction(value.num * pct, value.den * 100)

\* Decimal x weight / divider, weight and divider in percent (divider # 0)
Quotient(value, pct, divider) ==
    IF divider > 0 THEN Fraction(value.num * pct, value.den * divider)
    ELSE Fraction(-(value.num * pct), value.den * (-divider))

\* Decimal::is_sign_positive / is_sign_negative (zero carries no minus sign)
IsSignPositive(x) == x.num >= 0
IsSignNegative(x) == x.num < 0

----------------------------------------------------------------------------
(* The explored amounts *)

Values == {Dec(v * Cent) : v \in 0..MaxValue}
Totals == {Dec(t * Cent) : t \in 0..MaxTotal}
TradeVolumes == {Dec(k * Cent) : k \in 1..MaxTrade}

deserialize_weight(pct) ==
    IF pct \in 0..100 THEN [ok |-> TRUE, weight |-> pct]
    ELSE [ok |-> FALSE, weight |-> 0]

----------------------------------------------------------------------------
(* AssetAllocation *)

Stock(weight, current, buying, selling) ==
    [kind |-> "Stock", expected_weight |-> weight, current_value |-> current,
     target_value |-> Zero, min_value |-> Zero, max_value |-> None,
     restrict_buying |-> buying, restrict_selling |-> selling,
     buy_blocked |-> FALSE, sell_blocked |-> FALSE, holding |-> <<>>]

RECURSIVE SumCurrent(_)
SumCurrent(list) ==
    IF list = <<>> THEN Zero
    ELSE Add(list[1].current_value, SumCurrent(Tail(list)))

Group(weight, buying, selling, children) ==
    [kind |-> "Group", expected_weight |-> weight,
     current_value |-> SumCurrent(children),
     target_value |-> Zero, min_value |-> Zero, max_value |-> None,
     restrict_buying |-> buying, restrict_selling |-> selling,
     buy_blocked |-> FALSE, sell_blocked |-> FALSE, holding |-> children]

RECURSIVE SumTarget(_)
SumTarget(list) ==
    IF list = <<>> THEN Zero
    ELSE Add(list[1].target_value, SumTarget(Tail(list)))

RECURSIVE SumWeight(_)
SumWeight(list) ==
    IF list = <<>> THEN 0
    ELSE list[1].expected_weight + SumWeight(Tail(list))

RECURSIVE SumMin(_)
SumMin(list) ==
    IF list = <<>> THEN Zero
    ELSE Add(list[1].min_value, SumMin(Tail(list)))

\* The sibling list at a path of (1-based) child indices, and its replacement
RECURSIVE ListAt(_, _)
ListAt(list, path) ==
    IF path = <<>> THEN list
    ELSE ListAt(list[Head(path)].holding, Tail(path))

RECURSIVE ReplaceAt(_, _, _)
ReplaceAt(list, path, new) ==
    IF path = <<>> THEN new
    ELSE [list EXCEPT ![Head(path)].holding =
              ReplaceAt(list[Head(path)].holding, Tail(path), new)]

\* Every node of a tree, as the set of its records
RECURSIVE Nodes(_)
Nodes(list) ==
    UNION {{list[i]} \cup Nodes(list[i].holding) : i \in DOMAIN list}

\* Every sibling list of a tree (the root list and the children of each group)
RECURSIVE Lists(_)
Lists(list) ==
    {list} \cup UNION {IF list[i].kind = "Group" THEN Lists(list[i].holding) ELSE {}
                        : i \in DOMAIN list}

\* The iteration orders a HashSet<usize> holding 0..n-1 can produce
Orders(n) == {o \in [1..n -> 1..n] : \A i, j \in 1..n : o[i] = o[j] => i = j}

----------------------------------------------------------------------------
(* calculate_restrictions *)

\* Faulty variant: restrict_selling is not read, a leaf may always be sold to zero
RECURSIVE calculate_restrictions_ignoring_selling(_)
calculate_restrictions_ignoring_selling(list) ==
    IF list = <<>>
    THEN [assets |-> <<>>, total_min_value |-> Zero, total_max_value |-> Zero,
          all_with_max_value |-> TRUE]
    ELSE LET asset == list[Len(list)]
             before == calculate_restrictions_ignoring_selling(SubSeq(list, 1, Len(list) - 1))
             sub == calculate_restrictions_ignoring_selling(asset.holding)
             min_value == IF asset.kind = "Group" THEN sub.total_min_value ELSE Zero
             max_value == IF asset.kind = "Group"
                          THEN (IF sub.all_with_max_value
                                THEN Some(sub.total_max_value) ELSE None)
                          ELSE IF asset.restrict_buying THEN Some(asset.current_value)
                          ELSE None
             done == [asset EXCEPT !.min_value = min_value,
                                   !.max_value = max_value,
                                   !.holding = sub.assets]
         IN [assets |-> Append(before.assets, done),
             total_min_value |-> Add(before.total_min_value, min_value),
             total_max_value |-> IF max_value.some
                                 THEN Add(before.total_max_value, max_value.value)
                                 ELSE before.total_max_value,
             all_with_max_value |-> before.all_with_max_value /\ max_value.some]

\* Faulty variant: all_with_max_value is never cleared
RECURSIVE calculate_restrictions_always_max(_)
calculate_restrictions_always_max(list) ==
    IF list = <<>>
    THEN [assets |-> <<>>, total_min_value |-> Zero, total_max_value |-> Zero,
          all_with_max_value |-> TRUE]
    ELSE LET asset == list[Len(list)]
             before == calculate_restrictions_always_max(SubSeq(list, 1, Len(list) - 1))
             sub == calculate_restrictions_always_max(asset.holding)
             min_value == IF asset.kind = "Group" THEN sub.total_min_value
                          ELSE IF asset.restrict_selling THEN asset.current_value
                          ELSE Zero
             max_value == IF asset.kind = "Group"
                          THEN (IF sub.all_with_max_value
                                THEN Some(sub.total_max_value) ELSE None)
                          ELSE IF asset.restrict_buying THEN Some(asset.current_value)
                          ELSE None
             done == [asset EXCEPT !.min_value = min_value,
                                   !.max_value = max_value,
                                   !.holding = sub.assets]
         IN [assets |-> Append(before.assets, done),
             total_min_value |-> Add(before.total_min_value, min_value),
             total_max_value |-> IF max_value.some
                                 THEN Add(before.total_max_value, max_value.value)
                                 ELSE before.total_max_value,
             all_with_max_value |-> before.all_with_max_value]

RECURSIVE calculate_restrictions(_)
calculate_restrictions(list) ==
    IF list = <<>>
    THEN [assets |-> <<>>, total_min_value |-> Zero, total_max_value |-> Zero,
          all_with_max_value |-> TRUE]
    ELSE LET asset == list[Len(list)]
             before == calculate_restrictions(SubSeq(list, 1, Len(list) - 1))
             sub == calculate_restrictions(asset.holding)
             min_value == IF asset.kind = "Group" THEN sub.total_min_value
                          ELSE IF asset.restrict_selling THEN asset.current_value
                          ELSE Zero
             max_value == IF asset.kind = "Group"
                          THEN (IF sub.all_with_max_value
                                THEN Some(sub.total_max_value) ELSE None)
                          ELSE IF asset.restrict_buying THEN Some(asset.current_value)
                          ELSE None
             done == [asset EXCEPT !.min_value = min_value,
                                   !.max_value = max_value,
                                   !.holding = sub.assets]
         IN [assets |-> Append(before.assets, done),
             total_min_value |-> Add(before.total_min_value, min_value),
             total_max_value |-> IF max_value.some
                                 THEN Add(before.total_max_value, max_value.value)
                                 ELSE before.total_max_value,
             all_with_max_value |-> before.all_with_max_value /\ max_value.some]

\* The (Decimal, Option<Decimal>) pair the function returns
RestrictionsResult(r) ==
    <<r.total_min_value,
      IF r.all_with_max_value THEN Some(r.total_max_value) ELSE None>>

----------------------------------------------------------------------------
(* calculate_target_value: the passes over one sibling list.                *)
(* A pass state is [assets, balance, sells, buys]; order is the iteration  *)
(* order of correctable_holdings, which holds every index of the list.     *)

\* lines 82-85
RECURSIVE ProportionalPass(_, _)
ProportionalPass(list, target_total_value) ==
    IF list = <<>> THEN <<>>
    ELSE Append(ProportionalPass(SubSeq(list, 1, Len(list) - 1), target_total_value),
                [list[Len(list)] EXCEPT
                    !.target_value = Mul(target_total_value, list[Len(list)].expected_weight)])

\* Faulty variant: the target is clamped but buy_blocked stays clear
RECURSIVE MaxClampPassUnflagged(_, _, _)
MaxClampPassUnflagged(st, order, k) ==
    IF k > Len(st.assets) THEN st
    ELSE LET index == order[k]
             asset == st.assets[index]
         IN IF asset.max_value.some /\ Less(asset.max_value.value, asset.target_value)
            THEN MaxClampPassUnflagged(
                    [st EXCEPT !.balance = Add(@, Sub(asset.target_value, asset.max_value.value)),
                               !.assets[index].target_value = asset.max_value.value],
                    order, k + 1)
            ELSE MaxClampPassUnflagged(st, order, k + 1)

\* lines 98-114
RECURSIVE MaxClampPass(_, _, _)
MaxClampPass(st, order, k) ==
    IF k > Len(st.assets) THEN st
    ELSE LET index == order[k]
             asset == st.assets[index]
         IN IF asset.max_value.some /\ Less(asset.max_value.value, asset.target_value)
            THEN MaxClampPass(
                    [st EXCEPT !.balance = Add(@, Sub(asset.target_value, asset.max_value.value)),
                               !.assets[index].target_value = asset.max_value.value,
                               !.assets[index].buy_blocked = TRUE],
                    order, k + 1)
            ELSE MaxClampPass(st, order, k + 1)

\* Faulty variant: the clamped amount is not booked on the balance
RECURSIVE MinClampPassUnbooked(_, _, _)
MinClampPassUnbooked(st, order, k) ==
    IF k > Len(st.assets) THEN st
    ELSE LET index == order[k]
             asset == st.assets[index]
         IN IF Less(asset.target_value, asset.min_value)
            THEN MinClampPassUnbooked(
                    [st EXCEPT !.assets[index].target_value = asset.min_value,
                               !.assets[index].sell_blocked = TRUE],
                    order, k + 1)
            ELSE MinClampPassUnbooked(st, order, k + 1)

\* lines 117-129
RECURSIVE MinClampPass(_, _, _)
MinClampPass(st, order, k) ==
    IF k > Len(st.assets) THEN st
    ELSE LET index == order[k]
             asset == st.assets[index]
         IN IF Less(asset.target_value, asset.min_value)
            THEN MinClampPass(
                    [st EXCEPT !.balance = Add(@, Sub(asset.target_value, asset.min_value)),
                               !.assets[index].target_value = asset.min_value,
                               !.assets[index].sell_blocked = TRUE],
                    order, k + 1)
            ELSE MinClampPass(st, order, k + 1)

\* Faulty variant: only the too-small buys are snapped back, the too-small sells stay
RECURSIVE DustPassBuysOnly(_, _, _, _)
DustPassBuysOnly(st, order, k, mtv) ==
    IF k > Len(st.assets) THEN st
    ELSE LET index == order[k]
             asset == st.assets[index]
             difference == Sub(asset.target_value, asset.current_value)
         IN IF Less(Zero, difference) /\ Less(difference, mtv)
            THEN DustPassBuysOnly(
                    [st EXCEPT !.buys = Append(@, <<index, difference>>),
                               !.assets[index].target_value = asset.current_value,
                               !.balance = Add(@, difference)],
                    order, k + 1, mtv)
            ELSE DustPassBuysOnly(st, order, k + 1, mtv)

\* lines 132-149
RECURSIVE DustPass(_, _, _, _)
DustPass(st, order, k, mtv) ==
    IF k > Len(st.assets) THEN st
    ELSE LET index == order[k]
             asset == st.assets[index]
             difference == Sub(asset.target_value, asset.current_value)
         IN IF ~IsZero(difference) /\ Less(Magnitude(difference), mtv)
            THEN DustPass(
                    [st EXCEPT !.sells = IF IsSignNegative(difference)
                                         THEN Append(@, <<index, Negate(difference)>>) ELSE @,
                               !.buys = IF IsSignNegative(difference)
                                        THEN @ ELSE Append(@, <<index, difference>>),
                               !.assets[index].target_value = asset.current_value,
                               !.balance = Add(@, difference)],
                    order, k + 1, mtv)
            ELSE DustPass(st, order, k + 1, mtv)

\* Vec::sort_by_key(|item| item.1): a stable sort on the second component
RECURSIVE InsertByKey(_, _)
InsertByKey(sorted, item) ==
    IF sorted = <<>> THEN <<item>>
    ELSE IF AtMost(sorted[Len(sorted)][2], item[2]) THEN Append(sorted, item)
    ELSE Append(InsertByKey(SubSeq(sorted, 1, Len(sorted) - 1), item), sorted[Len(sorted)])

RECURSIVE SortByKey(_)
SortByKey(items) ==
    IF items = <<>> THEN <<>>
    ELSE InsertByKey(SortByKey(SubSeq(items, 1, Len(items) - 1)), items[Len(items)])

\* lines 153-171: the loop over the sorted buys
RECURSIVE RedistributeBuys(_, _, _)
RedistributeBuys(st, items, mtv) ==
    IF items = <<>> \/ Less(st.balance, mtv) THEN st
    ELSE LET index == items[1][1]
             asset == st.assets[index]
             target_value == Add(asset.current_value, mtv)
         IN IF asset.max_value.some /\ Less(asset.max_value.value, target_value)
            THEN RedistributeBuys(st, Tail(items), mtv)
            ELSE RedistributeBuys(
                    [st EXCEPT !.assets[index].target_value = target_value,
                               !.balance = Sub(@, mtv)],
                    Tail(items), mtv)

\* lines 175-194: the loop of the negative branch, which walks the buys
RECURSIVE RedistributeSells(_, _, _)
RedistributeSells(st, items, mtv) ==
    IF items = <<>> \/ Less(Negate(mtv), st.balance) THEN st
    ELSE LET index == items[1][1]
             asset == st.assets[index]
             target_value == Sub(asset.current_value, mtv)
         IN IF Less(target_value, asset.min_value)
            THEN IF asset.expected_weight = 0 /\ AtMost(target_value, Zero)
                 THEN RedistributeSells(
                        [st EXCEPT !.balance = Add(@, Sub(asset.current_value, asset.target_value)),
                                   !.assets[index].target_value = Zero],
                        Tail(items), mtv)
                 ELSE RedistributeSells(st, Tail(items), mtv)
            ELSE RedistributeSells(
                    [st EXCEPT !.assets[index].target_value = target_value,
                               !.balance = Add(@, mtv)],
                    Tail(items), mtv)

\* lines 151-196
RedistributionPass(st, mtv) ==
    IF IsZero(st.balance) THEN st
    ELSE IF IsSignPositive(st.balance)
    THEN RedistributeBuys([st EXCEPT !.buys = SortByKey(@)], SortByKey(st.buys), mtv)
    ELSE RedistributeSells([st EXCEPT !.sells = SortByKey(@)], st.buys, mtv)

\* Faulty variant: the balance is handed over without looking at max_value
RECURSIVE SpilloverPassUncapped(_, _, _)
SpilloverPassUncapped(st, order, k) ==
    IF k > Len(st.assets) THEN st
    ELSE LET index == order[k]
             asset == st.assets[index]
             difference == Sub(asset.target_value, asset.current_value)
         IN IF IsSignPositive(difference) /\ IsSignPositive(st.balance)
            THEN LET volume == st.balance
                 IN SpilloverPassUncapped(
                        [st EXCEPT !.balance = Sub(@, volume),
                                   !.assets[index].target_value = Add(@, volume)],
                        order, k + 1)
            ELSE IF IsSignNegative(difference) /\ IsSignNegative(st.balance)
            THEN LET volume == Min(Sub(asset.target_value, asset.min_value), Negate(st.balance))
                 IN SpilloverPassUncapped(
                        [st EXCEPT !.balance = Add(@, volume),
                                   !.assets[index].target_value = Sub(@, volume)],
                        order, k + 1)
            ELSE SpilloverPassUncapped(st, order, k + 1)

\* lines 198-220
RECURSIVE SpilloverPass(_, _, _)
SpilloverPass(st, order, k) ==
    IF k > Len(st.assets) THEN st
    ELSE LET index == order[k]
             asset == st.assets[index]
             difference == Sub(asset.target_value, asset.current_value)
         IN IF IsSignPositive(difference) /\ IsSignPositive(st.balance)
            THEN LET volume == IF asset.max_value.some
                               THEN Min(Sub(asset.max_value.value, asset.target_value), st.balance)
                               ELSE st.balance
                 IN SpilloverPass(
                        [st EXCEPT !.balance = Sub(@, volume),
                                   !.assets[index].target_value = Add(@, volume)],
                        order, k + 1)
            ELSE IF IsSignNegative(difference) /\ IsSignNegative(st.balance)
            THEN LET volume == Min(Sub(asset.target_value, asset.min_value), Negate(st.balance))
                 IN SpilloverPass(
                        [st EXCEPT !.balance = Add(@, volume),
                                   !.assets[index].target_value = Sub(@, volume)],
                        order, k + 1)
            ELSE SpilloverPass(st, order, k + 1)

\* lines 82-222: every pass over one sibling list, with the state after each
Passes(list, target_total_value, mtv, order) ==
    LET proportional == [assets |-> ProportionalPass(list, target_total_value),
                         balance |-> Zero, sells |-> <<>>, buys |-> <<>>]
        max_clamp == MaxClampPass(proportional, order, 1)
        min_clamp == MinClampPass(max_clamp, order, 1)
        dust == DustPass(min_clamp, order, 1, mtv)
        redistribution == RedistributionPass(dust, mtv)
        spillover == SpilloverPass(redistribution, order, 1)
    IN [proportional |-> proportional, max_clamp |-> max_clamp, min_clamp |-> min_clamp,
        dust |-> dust, redistribution |-> redistribution, spillover |-> spillover]

\* Faulty variant: a group's children are given what the group is worth now
RECURSIVE GroupCallsWithCurrentValue(_, _, _, _)
GroupCallsWithCurrentValue(list, path, order, k) ==
    IF k > Len(list) THEN <<>>
    ELSE IF list[order[k]].kind = "Group"
    THEN <<[path |-> Append(path, order[k]),
            target_total_value |-> list[order[k]].current_value]>>
         \o GroupCallsWithCurrentValue(list, path, order, k + 1)
    ELSE GroupCallsWithCurrentValue(list, path, order, k + 1)

\* lines 224-231: the recursive invocations a finished list asks for, in the
\* iteration order of correctable_holdings.union(&uncorrectable_holdings)
RECURSIVE GroupCalls(_, _, _, _)
GroupCalls(list, path, order, k) ==
    IF k > Len(list) THEN <<>>
    ELSE IF list[order[k]].kind = "Group"
    THEN <<[path |-> Append(path, order[k]),
            target_total_value |-> list[order[k]].target_value]>>
         \o GroupCalls(list, path, order, k + 1)
    ELSE GroupCalls(list, path, order, k + 1)

----------------------------------------------------------------------------
(* sell_overbought_assets.                                                  *)
(* sell.frames is the stack of the invocations under way, the outermost    *)
(* first.  A frame holds the variables of one invocation: the path of its  *)
(* sibling list in the tree, target_total_value, the iteration order of    *)
(* the HashSet it built at lines 240-243 (every call builds a new one, so  *)
(* every call has an order of its own), correctable_holdings,              *)
(* uncorrectable_holdings, force_selling, the locals of the iteration      *)
(* under way, the list and both sets as that iteration found them (start)  *)
(* and `at`, the place the invocation stands at:                           *)
(*   "for"        line 271, walk holding the children still to visit;     *)
(*   "call"       line 280, the invocation on Head(walk) being under way; *)
(*   "moved"      after line 284, that invocation having returned Debt;   *)
(*   "recovered"  after line 311 of a forced sale.                        *)

\* The indices of a HashSet in iteration order: the order restricted to members
Walk(order, members) == SelectSeq(order, LAMBDA index : index \in members)

RECURSIVE SumOver(_, _, _)
SumOver(list, members, field) ==
    IF list = <<>> THEN 0
    ELSE (IF Len(list) \in members THEN list[Len(list)][field] ELSE 0)
         + SumOver(SubSeq(list, 1, Len(list) - 1), members, field)

\* The sum of the target_value of the members of a list
RECURSIVE SumTargetOver(_, _)
SumTargetOver(list, members) ==
    IF list = <<>> THEN Zero
    ELSE Add(IF Len(list) \in members THEN list[Len(list)].target_value ELSE Zero,
             SumTargetOver(SubSeq(list, 1, Len(list) - 1), members))

\* Faulty variant: the child is removed from correctable_holdings and not
\* inserted into uncorrectable_holdings
MovedWithoutInsert(frame, index) ==
    [frame EXCEPT !.correctable = @ \ {index}]

\* lines 283-284 and 301-302: the child leaves correctable_holdings for
\* uncorrectable_holdings
Moved(frame, index) ==
    [frame EXCEPT !.correctable = @ \ {index},
                  !.uncorrectable = @ \cup {index}]

\* Faulty variant: the debt a forced sale left negative is not set to zero
Unclamped(correctable_debt) == correctable_debt

\* lines 312-314
Clamped(correctable_debt) ==
    IF IsSignNegative(correctable_debt) THEN Zero ELSE correctable_debt

\* lines 249-268 and the clone of line 271: the locals of a new iteration
BeginIteration(frame, list) ==
    LET uncorrectable_weight == SumOver(list, frame.uncorrectable, "expected_weight")
        uncorrectable_value == SumTargetOver(list, frame.uncorrectable)
        remaining == Sub(frame.target_total_value, uncorrectable_value)
    IN [frame EXCEPT
           !.divider = 100 - uncorrectable_weight,
           !.correctable_target_total_value =
               IF IsSignNegative(remaining) THEN Zero ELSE remaining,
           !.correctable_debt =
               IF IsSignNegative(remaining) THEN Magnitude(remaining) ELSE Zero,
           !.changed = FALSE,
           !.walk = Walk(frame.order, frame.correctable),
           !.at = "for",
           !.start = [assets |-> list, correctable |-> frame.correctable,
                      uncorrectable |-> frame.uncorrectable,
                      force_selling |-> frame.force_selling]]

\* lines 239-268: a call on the list at path, whose HashSet iterates in
\* `order`, up to the for loop of its first iteration
Invocation(path, target_total_value, order, list) ==
    BeginIteration(
        [path |-> path, target_total_value |-> target_total_value, order |-> order,
         correctable |-> DOMAIN list, uncorrectable |-> {}, force_selling |-> FALSE,
         divider |-> 100, correctable_target_total_value |-> Zero,
         correctable_debt |-> Zero, changed |-> FALSE, walk |-> <<>>, at |-> "for",
         prev_target_value |-> Zero, debt |-> Zero,
         start |-> [assets |-> <<>>, correctable |-> {}, uncorrectable |-> {},
                    force_selling |-> FALSE]],
        list)

\* lines 293, 294, 303 and 304: the Stock is sold by force
Forced(frame, asset, fair, mtv) ==
    /\ Less(fair, asset.current_value)
    /\ ~(asset.restrict_selling \/ Less(asset.current_value, mtv))
    /\ Less(Sub(asset.current_value, fair), mtv)
    /\ frame.force_selling

\* lines 292-331 for a Stock that is not sold by force, fair being the
\* target_value of line 275: the frame and the target_value they leave, and
\* the assert! that failed
SellStockChild(frame, asset, index, fair, mtv) ==
    LET debt == Sub(asset.current_value, fair)
        indebted == [frame EXCEPT !.correctable_debt = Add(@, debt)]
    IN IF ~Less(fair, asset.current_value)
       THEN [frame |-> frame, target_value |-> fair, fault |-> "none"]
       ELSE IF asset.restrict_selling \/ Less(asset.current_value, mtv)
       THEN IF Less(Zero, debt)
            THEN [frame |-> Moved(indebted, index),
                  target_value |-> asset.current_value, fault |-> "none"]
            ELSE [frame |-> frame, target_value |-> fair, fault |-> "assert 296"]
       ELSE IF Less(debt, mtv)
       THEN IF Less(Zero, debt)
            THEN [frame |-> indebted,
                  target_value |-> asset.current_value, fault |-> "none"]
            ELSE [frame |-> frame, target_value |-> fair, fault |-> "assert 322"]
       ELSE [frame |-> frame, target_value |-> fair, fault |-> "none"]

\* line 334 and the step of the for loop to the next child
Visited(frame, target_value, prev_target_value) ==
    [frame EXCEPT !.changed = @ \/ target_value # prev_target_value,
                  !.walk = Tail(@),
                  !.at = "for",
                  !.prev_target_value = Zero,
                  !.debt = Zero]

----------------------------------------------------------------------------
(* The explored portfolios *)

\* Weights written in the configuration ("40%"), and the ones deserialize_weight accepts
Percents == {0, 40, 50, 60, 100, 110}
Weights == {deserialize_weight(p).weight : p \in {q \in Percents : deserialize_weight(q).ok}}

BalancedPairs == {w \in Weights \X Weights : w[1] + w[2] = 100}
AnyPairs == Weights \X Weights
SplitPairs == {<<40, 60>>, <<50, 50>>}
EvenPairs == {<<50, 50>>}

\* restrict_buying, restrict_selling (after unwrap_or(false))
AnyFlags == BOOLEAN \X BOOLEAN
OneFlag == {f \in AnyFlags : ~(f[1] /\ f[2])}
\* A group's own flags are never read (calculate_restrictions looks at them
\* only for a Stock); the explored groups carry both
GroupFlags == {f \in AnyFlags : f[1] /\ f[2]}

Stocks(weight, flags) ==
    {Stock(weight, current, f[1], f[2]) : current \in Values, f \in flags}

\* Two holdings side by side
FlatPortfolios(pairs, flags) ==
    UNION {{<<a, b>> : a \in Stocks(w[1], flags), b \in Stocks(w[2], flags)} : w \in pairs}

\* A group of two holdings next to a holding
GroupPortfolios(pairs) ==
    UNION {UNION {{<<Group(w[1], f[1], f[2], inner), b>> :
                        f \in GroupFlags, b \in Stocks(w[2], OneFlag)}
                  : inner \in FlatPortfolios(EvenPairs, OneFlag)}
           : w \in pairs}

\* Two groups side by side, each of two unrestricted holdings worth 0 or 300
SiblingGroupPortfolios ==
    LET inner == {<<a, b>> : a \in {Stock(50, Zero, FALSE, FALSE),
                                     Stock(50, Dec(300 * Cent), FALSE, FALSE)},
                             b \in {Stock(50, Zero, FALSE, FALSE),
                                     Stock(50, Dec(300 * Cent), FALSE, FALSE)}}
    IN {<<Group(w[1], f[1], f[2], first), Group(w[2], f[1], f[2], second)>> :
            w \in EvenPairs, f \in GroupFlags, first \in inner, second \in inner}

Portfolios ==
    FlatPortfolios(BalancedPairs, AnyFlags) \cup GroupPortfolios(SplitPairs)
    \cup SiblingGroupPortfolios

\* No sell_overbought_assets invocation is under way (rebalance_portfolio never
\* makes one: the call sits under `if false`)
Idle == [pc |-> "idle", frames |-> <<>>, iterations |-> 0, stalled |-> FALSE,
         result |-> "none", debt |-> Zero, fault |-> "none"]

InitWith(portfolios) ==
    /\ assets \in portfolios
    /\ total_value \in Totals
    /\ min_trade_volume \in TradeVolumes
    /\ pc = "start"
    /\ calls = <<>>
    /\ log = <<>>
    /\ restrictions = <<Zero, None>>
    /\ result = "running"
    /\ run = 1
    /\ sell = Idle
    /\ CacheIdle
    /\ ParserIdle

\* The portfolios of the scenarios of the specification, with its amounts:
\* two holdings at 50%/50%, or a group of two 50%/50% holdings at 40% next to
\* a holding at 60%, each holding empty or worth 300, the budget being 1000
ScenarioValues == {Zero, Dec(300 * Cent)}

ScenarioStocks(weight, flags) ==
    {Stock(weight, current, f[1], f[2]) : current \in ScenarioValues, f \in flags}

ScenarioPortfolios ==
    {<<a, b>> : a \in ScenarioStocks(50, OneFlag), b \in ScenarioStocks(50, OneFlag)}
    \cup {<<Group(40, FALSE, FALSE, <<a, b>>), c>> :
            a \in ScenarioStocks(50, {<<FALSE, FALSE>>}),
            b \in ScenarioStocks(50, {<<FALSE, FALSE>>}),
            c \in ScenarioStocks(60, {<<FALSE, FALSE>>})}

InitScenario ==
    /\ assets \in ScenarioPortfolios
    /\ total_value = Dec(1000 * Cent)
    /\ min_trade_volume \in TradeVolumes
    /\ pc = "start"
    /\ calls = <<>>
    /\ log = <<>>
    /\ restrictions = <<Zero, None>>
    /\ result = "running"
    /\ run = 1
    /\ sell = Idle
    /\ CacheIdle
    /\ ParserIdle

Init == InitWith(Portfolios) \/ InitScenario

\* Portfolios whose sibling weights need not sum to 100%
InitConfig == InitWith(FlatPortfolios(AnyPairs, OneFlag))

----------------------------------------------------------------------------
(* rebalance_portfolio *)

\* line 13: the bottom-up step; its result is dropped by the caller
CalculateRestrictions ==
    /\ pc = "start"
    /\ LET r == calculate_restrictions(assets)
       IN /\ assets' = r.assets
          /\ restrictions' = RestrictionsResult(r)
    /\ calls' = <<[path |-> <<>>, target_total_value |-> total_value]>>
    /\ pc' = "allocating"
    /\ UNCHANGED <<total_value, min_trade_volume, log, result, run, sell,
                   cache_vars, parser_vars>>

\* lines 19-20 and 76-232: one invocation of calculate_target_value on the
\* sibling list on top of the recursion stack
CalculateTargetValue ==
    /\ pc = "allocating"
    /\ calls # <<>>
    /\ LET call == Head(calls)
           list == ListAt(assets, call.path)
       IN \E order \in Orders(Len(list)) :
            LET p == Passes(list, call.target_total_value, min_trade_volume, order)
                done == p.spillover.assets
            IN /\ assets' = ReplaceAt(assets, call.path, done)
               /\ calls' = GroupCalls(done, call.path, order, 1) \o Tail(calls)
               /\ log' = Append(log,
                       [path |-> call.path,
                        target_total_value |-> call.target_total_value,
                        max_clamp |-> p.max_clamp.balance,
                        min_clamp |-> p.min_clamp.balance,
                        dust |-> p.dust.balance,
                        redistribution |-> p.redistribution.balance,
                        redistributed |-> [k \in DOMAIN list |->
                                              p.redistribution.assets[k].target_value],
                        balance |-> p.spillover.balance])
    /\ UNCHANGED <<total_value, min_trade_volume, pc, restrictions, result, run, sell,
                   cache_vars, parser_vars>>

\* lines 22-28: the debt step is compiled out (if false); the function returns ()
Return ==
    /\ pc = "allocating"
    /\ calls = <<>>
    /\ pc' = "done"
    /\ result' = "unit"
    /\ UNCHANGED <<assets, total_value, min_trade_volume, calls, log, restrictions,
                   run, sell,
                   cache_vars, parser_vars>>

Next == CalculateRestrictions \/ CalculateTargetValue \/ Return

Spec == Init /\ [][Next]_vars

\* The portfolio a later run is built from once the targets were traded: every
\* holding is worth its target, every group the sum of its children
RECURSIVE Converged(_)
Converged(list) ==
    [i \in DOMAIN list |->
        IF list[i].kind = "Group"
        THEN Group(list[i].expected_weight, list[i].restrict_buying,
                   list[i].restrict_selling, Converged(list[i].holding))
        ELSE Stock(list[i].expected_weight, list[i].target_value,
                   list[i].restrict_buying, list[i].restrict_selling)]

\* A second run of rebalance_portfolio on the converged portfolio
Rerun ==
    /\ pc = "done"
    /\ run = 1
    /\ run' = 2
    /\ assets' = Converged(assets)
    /\ pc' = "start"
    /\ log' = <<>>
    /\ restrictions' = <<Zero, None>>
    /\ result' = "running"
    /\ UNCHANGED <<total_value, min_trade_volume, calls, sell,
                   cache_vars, parser_vars>>

NextRerun == Next \/ Rerun

SpecRerun == Init /\ [][NextRerun]_vars

SpecConfig == InitConfig /\ [][Next]_vars

----------------------------------------------------------------------------
(* sell_overbought_assets called on a portfolio with total_value as budget *)

\* restrict_buying is not read by sell_overbought_assets
SellFlags == {f \in AnyFlags : ~f[1]}

\* A single stock, two stocks, a group of two stocks next to a stock, and a
\* group that holds such a group and a stock
SellPortfolios ==
    {<<a>> : a \in Stocks(100, SellFlags)}
    \cup FlatPortfolios(BalancedPairs, SellFlags)
    \cup UNION {UNION {{<<Group(w[1], FALSE, FALSE, inner), b>> : b \in Stocks(w[2], SellFlags)}
                       : inner \in FlatPortfolios(EvenPairs, SellFlags)}
                : w \in SplitPairs}
    \cup UNION {{<<Group(100, FALSE, FALSE, <<Group(50, FALSE, FALSE, inner), b>>)>>
                        : b \in Stocks(50, SellFlags)}
                : inner \in FlatPortfolios(EvenPairs, SellFlags)}

\* The call is made and stands at the for loop of its first iteration
InitSell ==
    /\ assets \in SellPortfolios
    /\ total_value \in Totals
    /\ min_trade_volume \in TradeVolumes
    /\ pc = "sell"
    /\ calls = <<>>
    /\ log = <<>>
    /\ restrictions = <<Zero, None>>
    /\ result = "running"
    /\ run = 1
    /\ \E order \in Orders(Len(assets)) :
          sell = [Idle EXCEPT !.pc = "loop",
                              !.frames = <<Invocation(<<>>, total_value, order, assets)>>]
    /\ CacheIdle
    /\ ParserIdle

Running == pc = "sell" /\ sell.pc = "loop"

\* The innermost invocation, the one that runs, and its sibling list
Depth == Len(sell.frames)
Top == sell.frames[Depth]
TopList == ListAt(assets, Top.path)

\* The child the for loop stands at, and line 275 for it
Index == Head(Top.walk)
Child == TopList[Index]
Fair == Quotient(Top.correctable_target_total_value, Child.expected_weight, Top.divider)

\* The tree after asset.target_value = value
Retarget(value) ==
    ReplaceAt(assets, Top.path, [TopList EXCEPT ![Index].target_value = value])

\* The invocation that waits at line 280 for the innermost one, and the group
\* it called it on
Caller == sell.frames[Depth - 1]
Called == ListAt(assets, Caller.path)[Head(Caller.walk)]

\* Line 272: the for loop has a child to visit.  Line 337: it has none left.
InBody == Running /\ Top.at = "for" /\ Top.walk # <<>>
AtEnd == Running /\ Top.at = "for" /\ Top.walk = <<>>

\* line 275 with a divider of zero: the Decimal division panics
SellDivideByZero ==
    /\ InBody
    /\ Top.divider = 0
    /\ sell' = [sell EXCEPT !.pc = "panicked", !.fault = "division by zero"]
    /\ UNCHANGED <<assets, total_value, min_trade_volume, pc, calls, log, restrictions,
                   result, run, cache_vars, parser_vars>>

\* lines 272-334 for a Stock that is not sold by force
SellStock ==
    /\ InBody
    /\ Top.divider # 0
    /\ Child.kind = "Stock"
    /\ ~Forced(Top, Child, Fair, min_trade_volume)
    /\ LET done == SellStockChild(Top, Child, Index, Fair, min_trade_volume)
       IN /\ assets' = Retarget(done.target_value)
          /\ sell' = IF done.fault # "none"
                     THEN [sell EXCEPT !.pc = "panicked", !.fault = done.fault]
                     ELSE [sell EXCEPT !.frames[Depth] =
                              Visited(done.frame, done.target_value, Child.target_value)]
    /\ UNCHANGED <<total_value, min_trade_volume, pc, calls, log, restrictions,
                   result, run, cache_vars, parser_vars>>

\* lines 272-311 of a forced sale: the Stock is sold down by min_trade_volume
\* and what that recovers is taken off correctable_debt
SellForce ==
    /\ InBody
    /\ Top.divider # 0
    /\ Child.kind = "Stock"
    /\ Forced(Top, Child, Fair, min_trade_volume)
    /\ LET target_value == Sub(Child.current_value, min_trade_volume)
           extra_assets == Sub(Fair, target_value)
       IN /\ assets' = Retarget(target_value)
          /\ sell' = IF ~AtMost(Zero, extra_assets)
                     THEN [sell EXCEPT !.pc = "panicked", !.fault = "assert 309"]
                     ELSE [sell EXCEPT !.frames[Depth] =
                              [Top EXCEPT !.correctable_debt = Sub(@, extra_assets),
                                          !.prev_target_value = Child.target_value,
                                          !.at = "recovered"]]
    /\ UNCHANGED <<total_value, min_trade_volume, pc, calls, log, restrictions,
                   result, run, cache_vars, parser_vars>>

\* lines 312-319 and 334: the debt is set to zero when the sale recovered
\* more than it; without debt the for loop is left (break)
SellClamp ==
    /\ Running
    /\ Top.at = "recovered"
    /\ LET clamped == [Top EXCEPT !.correctable_debt = Clamped(@)]
       IN sell' = [sell EXCEPT !.frames[Depth] =
                      IF IsZero(clamped.correctable_debt)
                      THEN [clamped EXCEPT !.walk = <<>>, !.at = "for",
                                           !.prev_target_value = Zero]
                      ELSE Visited(clamped, Child.target_value, Top.prev_target_value)]
    /\ UNCHANGED <<assets, total_value, min_trade_volume, pc, calls, log, restrictions,
                   result, run, cache_vars, parser_vars>>

\* lines 272-280 for a Group and lines 239-268 of the call: the group gets
\* its fair target and a new invocation starts on its children
SellCall ==
    /\ InBody
    /\ Top.divider # 0
    /\ Child.kind = "Group"
    /\ \E order \in Orders(Len(Child.holding)) :
          sell' = [sell EXCEPT !.frames =
                      Append([@ EXCEPT ![Depth] =
                                  [Top EXCEPT !.at = "call",
                                              !.prev_target_value = Child.target_value]],
                             Invocation(Append(Top.path, Index), Fair, order, Child.holding))]
    /\ assets' = Retarget(Fair)
    /\ UNCHANGED <<total_value, min_trade_volume, pc, calls, log, restrictions,
                   result, run, cache_vars, parser_vars>>

\* lines 337-339 of a nested invocation and lines 281 and 334 of its caller
SellReturnOk ==
    /\ AtEnd
    /\ Depth > 1
    /\ IsZero(Top.correctable_debt)
    /\ sell' = [sell EXCEPT !.frames =
                   Append(SubSeq(@, 1, Depth - 2),
                          Visited(Caller, Called.target_value, Caller.prev_target_value))]
    /\ UNCHANGED <<assets, total_value, min_trade_volume, pc, calls, log, restrictions,
                   result, run, cache_vars, parser_vars>>

\* lines 341-343 of a nested invocation and lines 282-284 of its caller: the
\* group is moved to the uncorrectable set
SellReturnDebt ==
    /\ AtEnd
    /\ Depth > 1
    /\ ~IsZero(Top.correctable_debt)
    /\ Top.correctable = {}
    /\ sell' = [sell EXCEPT !.frames =
                   Append(SubSeq(@, 1, Depth - 2),
                          [Moved(Caller, Head(Caller.walk)) EXCEPT
                              !.at = "moved",
                              !.debt = Top.correctable_debt])]
    /\ UNCHANGED <<assets, total_value, min_trade_volume, pc, calls, log, restrictions,
                   result, run, cache_vars, parser_vars>>

\* lines 286-288 and 334: the debt of the call is added to the group's target
\* and to correctable_debt
SellAbsorb ==
    /\ Running
    /\ Top.at = "moved"
    /\ IF Less(Zero, Top.debt)
       THEN /\ assets' = Retarget(Add(Child.target_value, Top.debt))
            /\ sell' = [sell EXCEPT !.frames[Depth] =
                           Visited([Top EXCEPT !.correctable_debt = Add(@, Top.debt)],
                                   Add(Child.target_value, Top.debt),
                                   Top.prev_target_value)]
       ELSE /\ assets' = assets
            /\ sell' = [sell EXCEPT !.pc = "panicked", !.fault = "assert 286"]
    /\ UNCHANGED <<total_value, min_trade_volume, pc, calls, log, restrictions,
                   result, run, cache_vars, parser_vars>>

\* lines 337-347 when the loop goes round, and lines 249-268 of the next
\* iteration.  After an iteration that left the list, both sets and
\* force_selling as it found them the loop goes round like any other time,
\* and nothing stops it from going round like that without end: "hung" is
\* the run that does.  The outermost iterations are counted, those that
\* repeat one another up to MaxIterations.
SellAgain ==
    /\ AtEnd
    /\ ~IsZero(Top.correctable_debt)
    /\ Top.correctable # {}
    /\ LET force_selling == Top.force_selling \/ ~Top.changed
           same == /\ TopList = Top.start.assets
                   /\ Top.correctable = Top.start.correctable
                   /\ Top.uncorrectable = Top.start.uncorrectable
                   /\ force_selling = Top.start.force_selling
       IN \E hangs \in {FALSE, same} :
             sell' = [sell EXCEPT
                 !.frames[Depth] =
                     BeginIteration([Top EXCEPT !.force_selling = force_selling], TopList),
                 !.pc = IF hangs THEN "hung" ELSE "loop",
                 !.iterations = IF Depth = 1 /\ (~same \/ @ < MaxIterations)
                                THEN @ + 1 ELSE @,
                 !.stalled = @ \/ (Depth = 1 /\ Top.uncorrectable = Top.start.uncorrectable)]
    /\ UNCHANGED <<assets, total_value, min_trade_volume, pc, calls, log, restrictions,
                   result, run, cache_vars, parser_vars>>

\* lines 337-343 of the outermost invocation: it returns Ok or Debt
SellReturn ==
    /\ AtEnd
    /\ Depth = 1
    /\ IsZero(Top.correctable_debt) \/ Top.correctable = {}
    /\ sell' = [sell EXCEPT
           !.pc = "returned",
           !.iterations = @ + 1,
           !.result = IF IsZero(Top.correctable_debt) THEN "Ok" ELSE "Debt",
           !.debt = Top.correctable_debt]
    /\ UNCHANGED <<assets, total_value, min_trade_volume, pc, calls, log, restrictions,
                   result, run, cache_vars, parser_vars>>

NextSell ==
    \/ SellDivideByZero
    \/ SellStock
    \/ SellForce
    \/ SellClamp
    \/ SellCall
    \/ SellReturnOk
    \/ SellReturnDebt
    \/ SellAbsorb
    \/ SellAgain
    \/ SellReturn

SpecSell == InitSell /\ [][NextSell]_vars

----------------------------------------------------------------------------
(* Properties of the allocation run *)

Done == pc = "done"

RECURSIVE SumMax(_)
SumMax(list) ==
    IF list = <<>> THEN Zero
    ELSE Add(list[1].max_value.value, SumMax(Tail(list)))

AllWithMax(list) == \A i \in DOMAIN list : list[i].max_value.some

\* The budget lies inside the bounds calculate_restrictions gave the siblings
Feasible(list, budget) ==
    /\ SumWeight(list) = 100
    /\ AtMost(SumMin(list), budget)
    /\ AllWithMax(list) => AtMost(budget, SumMax(list))

\* C1: whenever the budget of a finished calculate_target_value call lies
\* between the sum of the children's min_value and the sum of their max_value
\* (weights summing to 1), the children's target_value sum to the budget.
C1_ConservationWhenFeasible ==
    \A i \in DOMAIN log :
        LET list == ListAt(assets, log[i].path)
        IN Feasible(list, log[i].target_total_value)
              => SumTarget(list) = log[i].target_total_value

\* C2: a run that finished some sibling list with a nonzero balance hands its
\* caller a reconciliation failure instead of completing normally.
C2_ResidualReported ==
    (Done /\ \E i \in DOMAIN log : ~IsZero(log[i].balance))
        => result = "ReconciliationFailure"

InRange(asset) ==
    /\ AtMost(asset.min_value, asset.target_value)
    /\ asset.max_value.some => AtMost(asset.target_value, asset.max_value.value)

\* C3: after rebalance_portfolio every node at every depth has
\* min_value <= target_value, and target_value <= max_value when max_value is set.
C3_Range == Done => \A asset \in Nodes(assets) : InRange(asset)

\* C3 witness: a finished run on a tree with a group in which one node sits on
\* its max_value and another on a positive min_value.
C3_Witness ==
    /\ Done
    /\ \E asset \in Nodes(assets) : asset.kind = "Group"
    /\ \E asset \in Nodes(assets) :
          asset.buy_blocked /\ asset.target_value = asset.max_value.value
    /\ \E asset \in Nodes(assets) :
          asset.sell_blocked /\ asset.target_value = asset.min_value /\ Less(Zero, asset.min_value)

Respected(asset) ==
    /\ asset.restrict_selling => AtMost(asset.current_value, asset.target_value)
    /\ asset.restrict_buying => AtMost(asset.target_value, asset.current_value)

\* C4 as written: after rebalance_portfolio every node, leaf or group, with
\* restrict_selling has target_value >= current_value and every node with
\* restrict_buying has target_value <= current_value.
C4_RestrictionRespect == Done => \A asset \in Nodes(assets) : Respected(asset)

\* C4 amended: the same for every leaf (Stock); a group's own flags are not
\* read by calculate_restrictions.
C4_LeafRestrictionRespect ==
    Done => \A asset \in Nodes(assets) : asset.kind = "Stock" => Respected(asset)

\* C4 witness: a finished run in which a sell-restricted leaf was asked to
\* shrink and a buy-restricted leaf was asked to grow, and both were held.
C4_Witness ==
    /\ Done
    /\ \E asset \in Nodes(assets) :
          /\ asset.kind = "Stock" /\ asset.restrict_selling /\ asset.sell_blocked
          /\ Less(Zero, asset.current_value) /\ asset.target_value = asset.current_value
    /\ \E asset \in Nodes(assets) :
          /\ asset.kind = "Stock" /\ asset.restrict_buying /\ asset.buy_blocked
          /\ asset.target_value = asset.current_value

Settled(asset) == asset.target_value = asset.current_value

\* C5: a second run on the portfolio converged to the targets of the first run
\* ends with target_value = current_value on every node.
C5_Idempotence == (run = 2 /\ Done) => \A asset \in Nodes(assets) : Settled(asset)

Granular(asset) ==
    \/ asset.target_value = asset.current_value
    \/ AtMost(min_trade_volume, Magnitude(Sub(asset.target_value, asset.current_value)))

\* C6 as written: after calculate_target_value every leaf has target_value =
\* current_value or differs from it by at least min_trade_volume, also when the
\* spillover pass placed a leftover balance.
C6_TradeGranularity ==
    \A i \in DOMAIN log :
        LET list == ListAt(assets, log[i].path)
        IN \A k \in DOMAIN list : list[k].kind = "Stock" => Granular(list[k])

\* C6 amended: the same for every leaf whose target_value the spillover pass
\* left as the redistribution pass set it.
C6_GranularityBeforeSpillover ==
    \A i \in DOMAIN log :
        LET list == ListAt(assets, log[i].path)
        IN \A k \in DOMAIN list :
              (list[k].kind = "Stock" /\ list[k].target_value = log[i].redistributed[k])
                  => Granular(list[k])

\* C6 witness: a finished call in which the dust pass snapped a leaf, the
\* redistribution pass moved one, and the spillover pass changed no leaf.
C6_Witness ==
    \E i \in DOMAIN log :
        LET list == ListAt(assets, log[i].path)
        IN /\ log[i].dust # log[i].min_clamp
           /\ log[i].redistribution # log[i].dust
           /\ \A k \in DOMAIN list :
                 list[k].kind = "Stock" /\ list[k].target_value = log[i].redistributed[k]
           /\ \E k \in DOMAIN list :
                 Magnitude(Sub(list[k].target_value, list[k].current_value)) = min_trade_volume

Balanced(tree) == \A list \in Lists(tree) : SumWeight(list) = 100

\* C9: on a portfolio in which some sibling list's weights do not sum to 100%
\* no target_value is ever assigned and the run ends with a ConfigurationError.
C9_ConfigurationRejected ==
    ~Balanced(assets) =>
        /\ log = <<>>
        /\ \A asset \in Nodes(assets) : IsZero(asset.target_value)
        /\ Done => result = "ConfigurationError"

Restricted == pc # "start"

ExpectedMin(asset) ==
    IF asset.kind = "Group" THEN SumMin(asset.holding)
    ELSE IF asset.restrict_selling THEN asset.current_value ELSE Zero

ExpectedMax(asset) ==
    IF asset.kind = "Group"
    THEN (IF AllWithMax(asset.holding) THEN Some(SumMax(asset.holding)) ELSE None)
    ELSE IF asset.restrict_buying THEN Some(asset.current_value) ELSE None

\* C10: once calculate_restrictions ran, every leaf has min_value =
\* current_value if restrict_selling else 0 and max_value = current_value if
\* restrict_buying else unset, every group has the sums of its children (max
\* only when every child has one), and the returned pair is the aggregate of
\* the top-level list.
C10_Restrictions ==
    Restricted =>
        /\ \A asset \in Nodes(assets) :
              /\ asset.min_value = ExpectedMin(asset)
              /\ asset.max_value = ExpectedMax(asset)
        /\ restrictions = <<SumMin(assets),
                            IF AllWithMax(assets) THEN Some(SumMax(assets)) ELSE None>>

\* C10 witness: restrictions were computed on a tree whose group is bounded
\* above by its children while the top-level list has a positive lower bound
\* and no upper bound.
C10_Witness ==
    /\ Restricted
    /\ \E asset \in Nodes(assets) :
          /\ asset.kind = "Group"
          /\ asset.max_value.some /\ Less(Zero, asset.max_value.value)
    /\ Less(Zero, restrictions[1])
    /\ ~restrictions[2].some

----------------------------------------------------------------------------
(* Properties of sell_overbought_assets *)

Returned == sell.pc = "returned"

NodeCount == Cardinality(UNION {{<<list, i>> : i \in DOMAIN list} : list \in Lists(assets)})

\* C7: the loop of sell_overbought_assets returns within as many iterations as
\* the subtree has nodes, and every iteration that does not return moves a
\* child from correctable to uncorrectable.
C7_BoundedProgress ==
    /\ sell.iterations <= NodeCount
    /\ ~sell.stalled
    /\ sell.pc # "hung"

\* C8: when sell_overbought_assets returns, the children's target_value sum
\* to the budget plus the reported debt (0 for Ok, a positive amount for Debt).
C8_BudgetAccounted ==
    Returned =>
        /\ SumTarget(assets) = Add(total_value, sell.debt)
        /\ sell.result = "Debt" => Less(Zero, sell.debt)

\* C8, the scenario: a single sell-restricted leaf above its budget ends as
\* Debt(current_value - budget) with target_value = current_value.
C8_SingleRestrictedLeaf ==
    (Returned /\ Len(assets) = 1 /\ assets[1].restrict_selling
              /\ Less(total_value, assets[1].current_value))
        => /\ sell.result = "Debt"
           /\ sell.debt = Sub(assets[1].current_value, total_value)
           /\ assets[1].target_value = assets[1].current_value

----------------------------------------------------------------------------
(* Properties of one calculate_target_value invocation *)

\* The invocation on top of the recursion stack has not run yet
Pending == pc = "allocating" /\ calls # <<>>

PendingList == ListAt(assets, Head(calls).path)

\* What the invocation leaves in the sibling list when correctable_holdings
\* is iterated in the given order
Outcome(order) ==
    Passes(PendingList, Head(calls).target_total_value, min_trade_volume, order).spillover.assets

\* C11: the target_value and the blocked flags calculate_target_value
\* produces depend on the sibling list, the budget and min_trade_volume only,
\* not on the order in which the index set is iterated.
C11_Determinism ==
    Pending => \A first, second \in Orders(Len(PendingList)) :
                  Outcome(first) = Outcome(second)

\* The passes of the pending invocation for one iteration order
PendingPasses(order) ==
    Passes(PendingList, Head(calls).target_total_value, min_trade_volume, order)

\* The walk C15 describes: over the would-be sells, smallest first, each
\* lowered by min_trade_volume unless that takes it below its min_value
RECURSIVE LowerSells(_, _, _)
LowerSells(st, items, mtv) ==
    IF items = <<>> \/ Less(Negate(mtv), st.balance) THEN st
    ELSE LET index == items[1][1]
             asset == st.assets[index]
         IN IF Less(Sub(asset.current_value, mtv), asset.min_value)
            THEN LowerSells(st, Tail(items), mtv)
            ELSE LowerSells(
                    [st EXCEPT !.assets[index].target_value = Sub(asset.current_value, mtv),
                               !.balance = Add(@, mtv)],
                    Tail(items), mtv)

\* C15: when the balance after the dust pass is <= -min_trade_volume, the
\* redistribution pass visits the dust-snapped children whose difference was
\* negative, in ascending order of |difference|, and lowers each to
\* current_value - min_trade_volume provided that is not below its min_value,
\* adding min_trade_volume to the balance, until balance > -min_trade_volume.
C15_NegativeRedistribution ==
    Pending => \A order \in Orders(Len(PendingList)) :
        LET p == PendingPasses(order)
            expected == LowerSells(p.dust, SortByKey(p.dust.sells), min_trade_volume)
        IN AtMost(p.dust.balance, Negate(min_trade_volume)) =>
              /\ p.redistribution.assets = expected.assets
              /\ p.redistribution.balance = expected.balance

\* The amount by which the proportional share of a child exceeds its max_value
Excess(asset, budget) ==
    IF asset.max_value.some /\ Less(asset.max_value.value, Mul(budget, asset.expected_weight))
    THEN Sub(Mul(budget, asset.expected_weight), asset.max_value.value)
    ELSE Zero

RECURSIVE SumExcess(_, _)
SumExcess(list, budget) ==
    IF list = <<>> THEN Zero
    ELSE Add(Excess(list[1], budget), SumExcess(Tail(list), budget))

\* The first scenario: a buy-restricted holding worth 300 at 50% next to an
\* unrestricted empty holding at 50%, budget 1000
BuyRestrictedScenario ==
    /\ total_value = Dec(1000 * Cent)
    /\ Len(assets) = 2
    /\ \A i \in 1..2 : assets[i].kind = "Stock" /\ assets[i].expected_weight = 50
    /\ assets[1].restrict_buying /\ ~assets[1].restrict_selling
    /\ assets[1].current_value = Dec(300 * Cent)
    /\ ~assets[2].restrict_buying /\ ~assets[2].restrict_selling
    /\ assets[2].current_value = Zero

\* C16: a child ends the max-clamp pass with buy_blocked set exactly when
\* budget x expected_weight > max_value; its target_value is then max_value
\* and the excess is credited to the balance.  The buy-restricted holding of
\* the first scenario ends at 300 with buy_blocked set, its sibling at 700.
C16_MaxClamp ==
    /\ Pending => \A order \in Orders(Len(PendingList)) :
          LET budget == Head(calls).target_total_value
              clamped == PendingPasses(order).max_clamp
          IN /\ \A i \in DOMAIN PendingList :
                  LET share == Mul(budget, PendingList[i].expected_weight)
                      over == /\ PendingList[i].max_value.some
                              /\ Less(PendingList[i].max_value.value, share)
                  IN /\ ~PendingList[i].buy_blocked
                     /\ clamped.assets[i].buy_blocked <=> over
                     /\ clamped.assets[i].target_value =
                            IF over THEN PendingList[i].max_value.value ELSE share
             /\ clamped.balance = SumExcess(PendingList, budget)
    /\ (Done /\ BuyRestrictedScenario) =>
          /\ assets[1].target_value = Dec(300 * Cent)
          /\ assets[1].buy_blocked
          /\ assets[2].target_value = Dec(700 * Cent)

\* C16 witness: the first scenario has run.
C16_Witness == Done /\ BuyRestrictedScenario /\ assets[1].buy_blocked

\* The paths of the groups of a tree
RECURSIVE GroupPaths(_, _)
GroupPaths(list, path) ==
    UNION {IF list[i].kind = "Group"
           THEN {Append(path, i)} \cup GroupPaths(list[i].holding, Append(path, i))
           ELSE {}
           : i \in DOMAIN list}

Parent(path) == SubSeq(path, 1, Len(path) - 1)

NodeAt(path) == ListAt(assets, Parent(path))[path[Len(path)]]

\* The finished invocations on the sibling list at a path
LogOf(path) == {k \in DOMAIN log : log[k].path = path}

RECURSIVE Unrestricted(_)
Unrestricted(list) ==
    \A i \in DOMAIN list :
        /\ ~list[i].restrict_buying /\ ~list[i].restrict_selling
        /\ Unrestricted(list[i].holding)

\* No proportional share of the tree is within min_trade_volume of the
\* current value without being equal to it
RECURSIVE Undusted(_, _)
Undusted(list, budget) ==
    \A i \in DOMAIN list :
        LET share == Mul(budget, list[i].expected_weight)
        IN /\ share = list[i].current_value
              \/ AtMost(min_trade_volume, Magnitude(Sub(share, list[i].current_value)))
           /\ Undusted(list[i].holding, share)

RECURSIVE Proportional(_, _)
Proportional(list, budget) ==
    \A i \in DOMAIN list :
        /\ list[i].target_value = Mul(budget, list[i].expected_weight)
        /\ Proportional(list[i].holding, list[i].target_value)

\* The second scenario: a group at 40% with two holdings at 50%/50%, no
\* restrictions, budget 1000
GroupScenario ==
    /\ total_value = Dec(1000 * Cent)
    /\ Len(assets) = 2
    /\ assets[1].kind = "Group" /\ assets[1].expected_weight = 40
    /\ Len(assets[1].holding) = 2
    /\ \A i \in 1..2 : assets[1].holding[i].expected_weight = 50
    /\ Unrestricted(assets)

\* C17: calculate_target_value runs on the children of every group exactly
\* once, after the invocation on the group's own sibling list, with the
\* group's final target_value as target_total_value; so without restrictions
\* and without dust every node's target_value is its parent's target_value
\* times its expected_weight, and the group at 40% of 1000 with two 50%/50%
\* holdings ends at 400 with 200 and 200 below it.
C17_RecursionBudget ==
    /\ \A k \in DOMAIN calls :
          calls[k].path # <<>> => calls[k].target_total_value = NodeAt(calls[k].path).target_value
    /\ Done => \A path \in GroupPaths(assets, <<>>) :
          /\ Cardinality(LogOf(path)) = 1
          /\ Cardinality(LogOf(Parent(path))) = 1
          /\ \A k \in LogOf(path) :
                /\ log[k].target_total_value = NodeAt(path).target_value
                /\ \A parent \in LogOf(Parent(path)) : parent < k
    /\ (Done /\ Unrestricted(assets) /\ Undusted(assets, total_value)) =>
          Proportional(assets, total_value)
    /\ (Done /\ GroupScenario) =>
          /\ assets[1].target_value = Dec(400 * Cent)
          /\ \A i \in 1..2 : assets[1].holding[i].target_value = Dec(200 * Cent)

\* C17 witness: the second scenario has run, on holdings that have to be
\* sold as well as bought.
C17_Witness ==
    /\ Done /\ GroupScenario
    /\ Less(assets[1].holding[1].target_value, assets[1].holding[1].current_value)
    /\ Less(assets[1].holding[2].current_value, assets[1].holding[2].target_value)

Blocked(asset) == asset.buy_blocked \/ asset.sell_blocked

\* A difference too small to trade
Dust(asset) ==
    /\ asset.target_value # asset.current_value
    /\ Less(Magnitude(Sub(asset.target_value, asset.current_value)), min_trade_volume)

\* The differences the dust pass is to eliminate: those of the unblocked children
RECURSIVE SumDust(_)
SumDust(list) ==
    IF list = <<>> THEN Zero
    ELSE Add(IF ~Blocked(list[1]) /\ Dust(list[1])
             THEN Sub(list[1].target_value, list[1].current_value) ELSE Zero,
             SumDust(Tail(list)))

\* C18: the dust pass leaves every child the clamp passes flagged buy_blocked
\* or sell_blocked at its clamped target_value, and gives every unblocked
\* child whose target_value - current_value is nonzero and smaller in
\* magnitude than min_trade_volume the target_value current_value, adding the
\* eliminated difference to the balance.
C18_DustPassFrame ==
    Pending => \A order \in Orders(Len(PendingList)) :
        LET before == PendingPasses(order).min_clamp
            after == PendingPasses(order).dust
        IN /\ \A i \in DOMAIN PendingList :
                /\ Blocked(before.assets[i]) =>
                      after.assets[i].target_value = before.assets[i].target_value
                /\ (~Blocked(before.assets[i]) /\ Dust(before.assets[i])) =>
                      after.assets[i].target_value = before.assets[i].current_value
           /\ after.balance = Add(before.balance, SumDust(before.assets))

\* One invocation of sell_overbought_assets: its two sets are disjoint and
\* together name every child of its list, and every uncorrectable child has
\* target_value = current_value
FramePartition(frame) ==
    LET list == ListAt(assets, frame.path)
    IN /\ frame.correctable \cap frame.uncorrectable = {}
       /\ frame.correctable \cup frame.uncorrectable = DOMAIN list
       /\ \A index \in frame.uncorrectable :
             list[index].target_value = list[index].current_value

Partition ==
    pc = "sell" => \A depth \in DOMAIN sell.frames : FramePartition(sell.frames[depth])

\* The same outside the lines 285-287, where a group is in the uncorrectable
\* set and the Debt of its call is not yet added to its target_value
PartitionBetweenChildren ==
    pc = "sell" =>
        \A depth \in DOMAIN sell.frames :
            sell.frames[depth].at # "moved" => FramePartition(sell.frames[depth])

\* The uncorrectable set of an invocation only grows
UncorrectableGrows ==
    \A depth \in DOMAIN sell.frames \cap DOMAIN sell'.frames :
        sell.frames[depth].uncorrectable \subseteq sell'.frames[depth].uncorrectable

C21_NoDivisionByZero ==
    pc = "sell" => sell.fault # "division by zero"

\* The six passes of calculate_target_value over one sibling list
PassNames == {"proportional", "max_clamp", "min_clamp", "dust", "redistribution", "spillover"}

\* C23: at the end of each pass of calculate_target_value over one sibling
\* list (proportional, max-clamp, min-clamp, dust, redistribution,
\* spillover) the children's target_value and the balance sum to
\* target_total_value x the sum of the children's expected_weight: every
\* change of a target is mirrored by the opposite change of the balance.
C23_BalanceAccounting ==
    Pending =>
        \A order \in Orders(Len(PendingList)) :
            LET after == PendingPasses(order)
                share == Mul(Head(calls).target_total_value, SumWeight(PendingList))
            IN \A pass \in PassNames :
                  Add(SumTarget(after[pass].assets), after[pass].balance) = share

\* C23 witness: an invocation has run in which the clamp passes, the dust
\* pass, the redistribution and the spillover each moved the balance.
C23_Witness ==
    \E i \in DOMAIN log :
        /\ ~IsZero(log[i].min_clamp)
        /\ log[i].dust # log[i].min_clamp
        /\ log[i].redistribution # log[i].dust
        /\ log[i].balance # log[i].redistribution

\* The assert! of sell_overbought_assets that failed, if one did
FailedAssert == sell.fault \in {"assert 286", "assert 296", "assert 309", "assert 322"}

\* C22 as stated: for non-negative current values and min_trade_volume > 0
\* no assert! of sell_overbought_assets fails (the debt of a recursive call
\* and the debt of a pinned leaf are > 0, the amount a forced sale recovers
\* is >= 0), and correctable_debt is never negative, in any invocation.
C22_SellAssertions ==
    (pc = "sell" /\ Less(Zero, min_trade_volume)) =>
        /\ ~FailedAssert
        /\ \A depth \in DOMAIN sell.frames :
              AtMost(Zero, sell.frames[depth].correctable_debt)

\* C22 amended: no assert! fails, and correctable_debt is not negative in
\* any invocation except between line 311, where a forced sale takes what it
\* recovered off the debt, and lines 312-314, which set a negative debt to 0.
C22_SellAssertionsAfterClamp ==
    (pc = "sell" /\ Less(Zero, min_trade_volume)) =>
        /\ ~FailedAssert
        /\ \A depth \in DOMAIN sell.frames :
              sell.frames[depth].at # "recovered" =>
                  AtMost(Zero, sell.frames[depth].correctable_debt)

\* C22 witness: one leaf was pinned to its current value and left a debt,
\* and a forced sale of its sibling then recovered more than that debt.
C22_Witness ==
    /\ pc = "sell"
    /\ Less(Zero, min_trade_volume)
    /\ sell.pc = "returned"
    /\ sell.frames[1].force_selling
    /\ sell.frames[1].uncorrectable # {}
    /\ \E index \in sell.frames[1].correctable :
          /\ assets[index].kind = "Stock"
          /\ assets[index].target_value = Sub(assets[index].current_value, min_trade_volume)

----------------------------------------------------------------------------
(* CurrencyRateCache (src/src/currency/rate_cache.rs).                      *)
(* A Date is the number of days since 2018-01-01 (negative before it); the *)
(* explored dates lie around that New Year, in the years 2017 and 2018.    *)
(* A Decimal price is [mantissa, scale], worth mantissa / 10^scale; the    *)
(* price column holds its text, a sequence of characters, or NULL.         *)

MaxDay == 2

\* The year of day 0
EpochYear == 2018

\* From 2017-12-31 to the day after today, today being day MaxDay
Dates == -1..(MaxDay + 1)

\* The calendar of chrono: the Gregorian leap years
IsLeapYear(year) == year % 4 = 0 /\ (year % 100 # 0 \/ year % 400 = 0)

DaysInYear(year) == IF IsLeapYear(year) THEN 366 ELSE 365

\* date.year() and the day that year begins on, counted from `year`, which
\* begins on day `first`
RECURSIVE YearOf(_, _, _)
YearOf(date, year, first) ==
    IF date < first
    THEN YearOf(date, year - 1, first - DaysInYear(year - 1))
    ELSE IF date >= first + DaysInYear(year)
    THEN YearOf(date, year + 1, first + DaysInYear(year))
    ELSE [year |-> year, first |-> first]

\* Date::from_ymd(date.year(), 1, 1) and Date::from_ymd(date.year(), 12, 31)
YearStart(date) == YearOf(date, EpochYear, 0).first
YearEnd(date) ==
    LET found == YearOf(date, EpochYear, 0)
    IN found.first + DaysInYear(found.year) - 1

Currencies == {"USD", "EUR"}

Digits == <<"0", "1", "2", "3", "4", "5", "6", "7", "8", "9">>

RECURSIVE Power10(_)
Power10(scale) == IF scale = 0 THEN 1 ELSE 10 * Power10(scale - 1)

RECURSIVE NaturalToString(_)
NaturalToString(n) ==
    IF n < 10 THEN <<Digits[n + 1]>>
    ELSE Append(NaturalToString(n \div 10), Digits[(n % 10) + 1])

\* The last `scale` digits of n, zeros included
RECURSIVE FractionToString(_, _)
FractionToString(n, scale) ==
    IF scale = 0 THEN <<>>
    ELSE Append(FractionToString(n \div 10, scale - 1), Digits[(n % 10) + 1])

\* Faulty variant: the zeros that lead the fraction are dropped
to_string_unpadded(price) ==
    IF price.scale = 0 THEN NaturalToString(price.mantissa)
    ELSE NaturalToString(price.mantissa \div Power10(price.scale)) \o <<".">>
         \o NaturalToString(price.mantissa % Power10(price.scale))

\* line 124: Decimal::to_string
to_string(price) ==
    IF price.scale = 0 THEN NaturalToString(price.mantissa)
    ELSE NaturalToString(price.mantissa \div Power10(price.scale)) \o <<".">>
         \o FractionToString(price.mantissa % Power10(price.scale), price.scale)

DigitValue(char) == CHOOSE v \in 0..9 : Digits[v + 1] = char

IsDigit(char) == \E v \in 0..9 : Digits[v + 1] = char

RECURSIVE ParseNatural(_)
ParseNatural(text) ==
    IF text = <<>> THEN 0
    ELSE 10 * ParseNatural(SubSeq(text, 1, Len(text) - 1)) + DigitValue(text[Len(text)])

\* line 52: Decimal::from_str; ok is FALSE for a text that is no decimal number
from_str(text) ==
    LET points == {k \in DOMAIN text : text[k] = "."}
        digits == SelectSeq(text, IsDigit)
    IN IF \/ Cardinality(points) > 1
          \/ digits = <<>>
          \/ Len(digits) + Cardinality(points) # Len(text)
       THEN [ok |-> FALSE, value |-> [mantissa |-> 0, scale |-> 0]]
       ELSE [ok |-> TRUE,
             value |-> [mantissa |-> ParseNatural(digits),
                        scale |-> IF points = {} THEN 0
                                  ELSE Len(text) - (CHOOSE k \in points : TRUE)]]

\* Option<String>, the price column
Null == [null |-> TRUE, text |-> <<>>]
Text(text) == [null |-> FALSE, text |-> text]

\* models::NewCurrencyRate
NewCurrencyRate(currency, date, price) ==
    [currency |-> currency, date |-> date, price |-> price]

\* lines 131-133: REPLACE INTO currency_rates, whose key is (currency, date);
\* the rows are written one after the other
RECURSIVE replace_into(_, _)
replace_into(rows, values) ==
    IF values = <<>> THEN rows
    ELSE replace_into(
            {row \in rows : ~(row.currency = values[1].currency /\ row.date = values[1].date)}
                \cup {values[1]},
            Tail(values))

\* lines 38-86
get(rows, now, currency, date) ==
    IF date >= now
    THEN [kind |-> "Err", message |-> "An attempt to get price for the future"]
    ELSE LET found == {row \in rows : row.currency = currency /\ row.date = date}
         IN IF found # {}
            THEN LET cached_price == (CHOOSE row \in found : TRUE).price
                 IN IF cached_price.null
                    THEN [kind |-> "Exists", some |-> FALSE,
                          price |-> [mantissa |-> 0, scale |-> 0]]
                    ELSE IF from_str(cached_price.text).ok
                    THEN [kind |-> "Exists", some |-> TRUE,
                          price |-> from_str(cached_price.text).value]
                    ELSE [kind |-> "Err",
                          message |-> "Got an invalid price from the database"]
            ELSE LET year_start == YearStart(date)
                     year_end == YearEnd(date)
                     cached == {row.date : row \in {r \in rows :
                                    /\ r.currency = currency
                                    /\ r.date >= year_start
                                    /\ r.date <= year_end}}
                     start_date == IF cached # {}
                                   THEN (CHOOSE last_date \in cached :
                                            \A other \in cached : other <= last_date) + 1
                                   ELSE year_start
                     end_date == IF year_end >= now THEN now - 1 ELSE year_end
                 IN IF start_date <= end_date /\ end_date < now
                    THEN [kind |-> "Missing", start_date |-> start_date,
                          end_date |-> end_date]
                    ELSE [kind |-> "panic"]

\* rates.sort_by_key(|rate| rate.date), line 95
RECURSIVE InsertByDate(_, _)
InsertByDate(sorted, rate) ==
    IF sorted = <<>> THEN <<rate>>
    ELSE IF sorted[Len(sorted)].date <= rate.date THEN Append(sorted, rate)
    ELSE Append(InsertByDate(SubSeq(sorted, 1, Len(sorted) - 1), rate), sorted[Len(sorted)])

RECURSIVE SortByDate(_)
SortByDate(rates) ==
    IF rates = <<>> THEN <<>>
    ELSE InsertByDate(SortByDate(SubSeq(rates, 1, Len(rates) - 1)), rates[Len(rates)])

\* lines 105-114
fill_gap(currency, from, to) ==
    IF from < to
    THEN [k \in 1..(to - from) |-> NewCurrencyRate(currency, from + k - 1, Null)]
    ELSE <<>>

\* lines 116-129: the rows save writes for the sorted rates
RECURSIVE SaveValues(_, _, _, _)
SaveValues(currency, rates, next_date, end_date) ==
    IF rates = <<>> THEN fill_gap(currency, next_date, end_date + 1)
    ELSE fill_gap(currency, next_date, rates[1].date)
         \o <<NewCurrencyRate(currency, rates[1].date, Text(to_string(rates[1].price)))>>
         \o SaveValues(currency, Tail(rates), rates[1].date + 1, end_date)

\* Faulty variant: the end of the range is not compared with today
save_any_day(rows, now, currency, start_date, end_date, rates) ==
    IF start_date > end_date
    THEN [result |-> "Invalid date range", db |-> rows]
    ELSE LET sorted == SortByDate(rates)
         IN IF sorted # <<>> /\ (\/ sorted[1].date < start_date
                                 \/ sorted[Len(sorted)].date > end_date)
            THEN [result |-> "The specified currency rates don't match the specified date range",
                  db |-> rows]
            ELSE [result |-> "Ok",
                  db |-> replace_into(rows, SaveValues(currency, sorted, start_date, end_date))]

\* lines 88-136
save(rows, now, currency, start_date, end_date, rates) ==
    IF start_date > end_date
    THEN [result |-> "Invalid date range", db |-> rows]
    ELSE IF end_date >= now
    THEN [result |-> "An attempt to save currency rates for the future", db |-> rows]
    ELSE LET sorted == SortByDate(rates)
         IN IF sorted # <<>> /\ (\/ sorted[1].date < start_date
                                 \/ sorted[Len(sorted)].date > end_date)
            THEN [result |-> "The specified currency rates don't match the specified date range",
                  db |-> rows]
            ELSE [result |-> "Ok",
                  db |-> replace_into(rows, SaveValues(currency, sorted, start_date, end_date))]

\* The prices of the explored rates: 0.14 and 65.05
Prices == <<[mantissa |-> 14, scale |-> 2], [mantissa |-> 6505, scale |-> 2]>>

\* Vec<CurrencyRate> of at most two rates, in any order of dates; the k-th
\* rate carries the k-th price
RateLists ==
    UNION {{[k \in 1..n |-> [date |-> dates[k], price |-> Prices[k]]] : dates \in [1..n -> Dates]}
           : n \in 0..Len(Prices)}

\* A cache file in which an earlier run left a EUR rate for 2018-01-01, or nothing
EarlierCaches ==
    {{}, {NewCurrencyRate("EUR", 0, Text(to_string(Prices[1])))}}

InitCache ==
    /\ assets = <<>>
    /\ total_value = Zero
    /\ min_trade_volume = Zero
    /\ pc = "cache"
    /\ calls = <<>>
    /\ log = <<>>
    /\ restrictions = <<Zero, None>>
    /\ result = "running"
    /\ run = 1
    /\ sell = Idle
    /\ today = MaxDay
    /\ db \in EarlierCaches
    /\ reply = NoCall
    /\ ParserIdle

\* One call of CurrencyRateCache::get
Get ==
    /\ pc = "cache"
    /\ reply = NoCall
    /\ \E currency \in Currencies, date \in Dates :
          reply' = [op |-> "get", currency |-> currency, date |-> date,
                    result |-> get(db, today, currency, date)]
    /\ UNCHANGED <<portfolio_vars, today, db, parser_vars>>

\* One call of CurrencyRateCache::save; the explored runs fetch USD rates
Save ==
    /\ pc = "cache"
    /\ reply = NoCall
    /\ \E start_date \in Dates, end_date \in Dates, rates \in RateLists :
          LET saved == save(db, today, "USD", start_date, end_date, rates)
          IN /\ db' = saved.db
             /\ reply' = [op |-> "save", currency |-> "USD", start_date |-> start_date,
                          end_date |-> end_date, rates |-> rates, result |-> saved.result]
    /\ UNCHANGED <<portfolio_vars, today, parser_vars>>

\* A failed assert! (lines 81-82) ended the process
Panicked == reply.op = "get" /\ reply.result = [kind |-> "panic"]

\* The caller takes the result; the cache keeps nothing of a call but its rows
Receive ==
    /\ pc = "cache"
    /\ reply # NoCall
    /\ ~Panicked
    /\ reply' = NoCall
    /\ UNCHANGED <<portfolio_vars, today, db, parser_vars>>

NextCache == Get \/ Save \/ Receive

SpecCache == InitCache /\ [][NextCache]_vars

----------------------------------------------------------------------------
(* WithholdingTaxParser (src/src/broker_statement/ib/taxes.rs).             *)
(* parser.taxes, a HashMap<TaxId, Cash>, is the set of its entries          *)
(* [tax_id, tax]; a TaxId is <<date, description>> and a Cash is            *)
(* [currency, amount].  A record carries the values get_value, parse_date  *)
(* and parse_cash hand over: the amount is a nonzero Decimal               *)
(* (CashType::NonZero).                                                     *)

MaxAmount == 2

Amounts == {amount \in -MaxAmount..MaxAmount : amount # 0}

\* The dates and descriptions of the explored rows
TaxDates == {"2018-01-10", "2018-02-04"}
Descriptions == {"AAA Cash Dividend - US Tax", "BBB Cash Dividend - US Tax"}

Records ==
    [Currency : Currencies \cup {"Total"}, Date : TaxDates,
     Description : Descriptions, Amount : Amounts]

\* Cash::new, is_positive, the negation and the comparison of two Cash
Cash(currency, amount) == [currency |-> currency, amount |-> amount]
is_positive(cash) == cash.amount > 0
Neg(cash) == [cash EXCEPT !.amount = -cash.amount]

\* HashMap::remove and HashMap::insert: the map afterwards and the entries
\* that were stored under the key
remove(map, tax_id) ==
    [map |-> {entry \in map : entry.tax_id # tax_id},
     old |-> {entry \in map : entry.tax_id = tax_id}]
insert(map, tax_id, tax) ==
    [map |-> {entry \in map : entry.tax_id # tax_id} \cup {[tax_id |-> tax_id, tax |-> tax]},
     old |-> {entry \in map : entry.tax_id = tax_id}]

\* Faulty variant: a negative amount is stored as it is written in the row
parse_unnegated(map, record) ==
    IF record.Currency = "Total" THEN [result |-> "Ok", taxes |-> map]
    ELSE LET tax_id == <<record.Date, record.Description>>
             tax == Cash(record.Currency, record.Amount)
         IN IF is_positive(tax)
            THEN LET removed == remove(map, tax_id)
                 IN IF \E entry \in removed.old : entry.tax = tax
                    THEN [result |-> "Ok", taxes |-> removed.map]
                    ELSE [result |-> "Invalid withholding tax", taxes |-> removed.map]
            ELSE LET inserted == insert(map, tax_id, tax)
                 IN IF inserted.old # {}
                    THEN [result |-> "Got a duplicate withholding tax", taxes |-> inserted.map]
                    ELSE [result |-> "Ok", taxes |-> inserted.map]

\* lines 14-44
parse(map, record) ==
    IF record.Currency = "Total" THEN [result |-> "Ok", taxes |-> map]
    ELSE LET tax_id == <<record.Date, record.Description>>
             tax == Cash(record.Currency, record.Amount)
         IN IF is_positive(tax)
            THEN LET removed == remove(map, tax_id)
                 IN IF \E entry \in removed.old : entry.tax = tax
                    THEN [result |-> "Ok", taxes |-> removed.map]
                    ELSE [result |-> "Invalid withholding tax", taxes |-> removed.map]
            ELSE LET inserted == insert(map, tax_id, Neg(tax))
                 IN IF inserted.old # {}
                    THEN [result |-> "Got a duplicate withholding tax", taxes |-> inserted.map]
                    ELSE [result |-> "Ok", taxes |-> inserted.map]

InitParser ==
    /\ assets = <<>>
    /\ total_value = Zero
    /\ min_trade_volume = Zero
    /\ pc = "statement"
    /\ calls = <<>>
    /\ log = <<>>
    /\ restrictions = <<Zero, None>>
    /\ result = "running"
    /\ run = 1
    /\ sell = Idle
    /\ CacheIdle
    /\ taxes = {}
    /\ parsed = NoRecord

\* WithholdingTaxParser::parse on the next row of the section
Parse ==
    /\ pc = "statement"
    /\ parsed = NoRecord
    /\ \E record \in Records :
          LET done == parse(taxes, record)
          IN /\ taxes' = done.taxes
             /\ parsed' = [record |-> record, result |-> done.result]
    /\ UNCHANGED <<portfolio_vars, cache_vars>>

\* The statement parser goes on to the next row; an error ends the parsing
NextRecord ==
    /\ pc = "statement"
    /\ parsed # NoRecord
    /\ parsed.result = "Ok"
    /\ parsed' = NoRecord
    /\ UNCHANGED <<portfolio_vars, cache_vars, taxes>>

NextParser == Parse \/ NextRecord

SpecParser == InitParser /\ [][NextParser]_vars

----------------------------------------------------------------------------
(* Properties of CurrencyRateCache *)

\* save has just returned Ok
Saved == reply.op = "save" /\ reply.result = "Ok"

DistinctDates(rates) ==
    \A j, k \in DOMAIN rates : rates[j].date = rates[k].date => j = k

Exists(price) == [kind |-> "Exists", some |-> TRUE, price |-> price]
ExistsNone == [kind |-> "Exists", some |-> FALSE, price |-> [mantissa |-> 0, scale |-> 0]]

\* C12: after a successful save(currency, start, end, rates) with distinct
\* rate dates, get(currency, d) for every d of start..end is Exists(Some(p))
\* when rates holds (d, p) and Exists(None) when it holds no rate for d; no
\* date of the range is Missing.
C12_SaveGetRoundTrip ==
    (Saved /\ DistinctDates(reply.rates)) =>
        \A date \in reply.start_date..reply.end_date :
            get(db, today, reply.currency, date) =
                IF \E k \in DOMAIN reply.rates : reply.rates[k].date = date
                THEN Exists(reply.rates[CHOOSE k \in DOMAIN reply.rates :
                                            reply.rates[k].date = date].price)
                ELSE ExistsNone

\* C12 witness: a save of two rates handed over latest first, with a day
\* between them for which there is no rate.
C12_Witness ==
    /\ Saved
    /\ Len(reply.rates) = 2
    /\ reply.rates[1].date > reply.rates[2].date + 1
    /\ reply.start_date = reply.rates[2].date
    /\ reply.end_date = reply.rates[1].date

\* The cached dates of a currency inside the calendar year of a date
CachedInYear(currency, date) ==
    {row.date : row \in {r \in db : /\ r.currency = currency
                                    /\ r.date >= YearStart(date)
                                    /\ r.date <= YearEnd(date)}}

\* get has just returned for a past date the cache has no row for
Missed ==
    /\ reply.op = "get"
    /\ reply.date < today
    /\ ~\E row \in db : row.currency = reply.currency /\ row.date = reply.date

\* C13: for a date d < today without a cached row, get(currency, d) returns
\* Missing(s, e): s is the day after the latest cached date of the currency in
\* d's calendar year (January 1 when none is cached), e is December 31 of
\* that year, or today - 1 when December 31 is not before today.
C13_MissRange ==
    Missed =>
        LET cached == CachedInYear(reply.currency, reply.date)
        IN reply.result =
            [kind |-> "Missing",
             start_date |-> IF cached = {} THEN YearStart(reply.date)
                            ELSE 1 + CHOOSE latest \in cached :
                                        \A other \in cached : other <= latest,
             end_date |-> IF YearEnd(reply.date) < today THEN YearEnd(reply.date)
                          ELSE today - 1]

Future == [kind |-> "Err", message |-> "An attempt to get price for the future"]

\* save was called with a range that ends today or later, or is empty, or
\* does not hold every rate
Unacceptable ==
    /\ reply.op = "save"
    /\ \/ reply.end_date >= today
       \/ reply.start_date > reply.end_date
       \/ \E k \in DOMAIN reply.rates : \/ reply.rates[k].date < reply.start_date
                                        \/ reply.rates[k].date > reply.end_date

NoFutureRates ==
    /\ (reply.op = "get" /\ reply.date >= today) => reply.result = Future
    /\ Unacceptable => reply.result # "Ok"
    /\ \A row \in db : row.date < today

\* C14: get(currency, d) with d >= today returns the error 'An attempt to get
\* price for the future' whatever the cache holds; save with end_date >= today,
\* start_date > end_date or a rate outside start_date..end_date returns an
\* error and leaves the rows as they were; the cache never holds a row dated
\* today or later.
C14_NoRatesForTheFuture ==
    /\ []NoFutureRates
    /\ [][(reply'.op = "save" /\ reply'.result # "Ok") => db' = db]_vars

\* C14 witness: a cache that holds USD rows has just refused a save whose
\* range ends after today.
C14_Witness ==
    /\ reply.op = "save"
    /\ reply.start_date < today
    /\ reply.end_date > today
    /\ reply.result = "An attempt to save currency rates for the future"
    /\ \E row \in db : row.currency = "USD" /\ ~row.price.null

----------------------------------------------------------------------------
(* Properties of WithholdingTaxParser *)

\* The entries stored under the id of a record
Stored(map, record) == {entry \in map : entry.tax_id = <<record.Date, record.Description>>}

\* The row that cancels a tax row: the same row with the amount negated
Cancelling(record) == [record EXCEPT !.Amount = -record.Amount]

\* What the step that has just parsed a record must have done
RecordCancel(before, record, returned, after) ==
    LET stored == Stored(before, record)
        tax_id == <<record.Date, record.Description>>
        cash == Cash(record.Currency, Abs(record.Amount))
    IN CASE record.Currency = "Total" ->
                returned = "Ok" /\ after = before
         [] record.Currency # "Total" /\ record.Amount < 0 /\ stored = {} ->
                /\ returned = "Ok"
                /\ after = before \cup {[tax_id |-> tax_id, tax |-> cash]}
                /\ parse(after, Cancelling(record)) = [result |-> "Ok", taxes |-> before]
         [] record.Currency # "Total" /\ record.Amount < 0 /\ stored # {} ->
                returned = "Got a duplicate withholding tax"
         [] record.Currency # "Total" /\ record.Amount > 0
                /\ (\E entry \in stored : entry.tax = cash) ->
                returned = "Ok" /\ after = before \ stored
         [] OTHER ->
                returned = "Invalid withholding tax"

\* C20: a record with a negative amount -a for an id not yet present stores
\* the tax a under the id, and the record with the positive amount a in the
\* same currency for the same id then succeeds and gives back the map as it
\* was before the pair; a second negative record for an id still present
\* returns 'Got a duplicate withholding tax'; a positive record without a
\* stored tax of the same amount returns 'Invalid withholding tax'; a row
\* whose Currency is 'Total' changes nothing.
C20_RecordCancelRoundTrip ==
    [][parsed' # NoRecord =>
          RecordCancel(taxes, parsed'.record, parsed'.result, taxes')]_vars

\* C20 witness: a tax was cancelled while another one stays recorded.
C20_Witness ==
    /\ parsed # NoRecord
    /\ parsed.record.Currency # "Total"
    /\ parsed.record.Amount > 0
    /\ parsed.result = "Ok"
    /\ taxes # {}

\* C24: WithholdingTaxParser::parse leaves the recorded taxes unchanged when
\* it returns an error: after a rejected cancellation the stored tax is still
\* present, and after a rejected duplicate the originally stored amount is
\* still the one recorded.
C24_ErrorLeavesTaxes ==
    [][(parsed' # NoRecord /\ parsed'.result # "Ok") => taxes' = taxes]_vars

====
